---------------------------- MODULE Spec2Model ----------------------------
(***************************************************************************)
(* Room state machine, budget clamp and allocation engine of the auction   *)
(* server (src/unnamed/part_000).                                          *)
(*                                                                         *)
(* JavaScript numbers are modelled as integers plus the three non-finite   *)
(* values NaN, Infinity and -Infinity, because the server's numeric        *)
(* conversions (Math.floor, Math.max, Math.min, Number) pass them through. *)
(* A numeric field of an inbound message is given in HALVES (the raw value *)
(* 3 is the JSON number 1.5), so that Math.floor is a real conversion; a   *)
(* field that is absent or null is Undefined, one that does not convert to *)
(* a number is NaN.  Values stored by the server are in units.             *)
(*                                                                         *)
(* Participant ids (nanoid(8), one per connection) are the integers        *)
(* 1..NumConns and topic ids are small integers; the integer order stands  *)
(* for the order String.prototype.localeCompare gives the id strings.      *)
(***************************************************************************)
EXTENDS Integers, Sequences, FiniteSets

(***************************************************************************)
(* JavaScript numbers                                                      *)
(***************************************************************************)
Infinity == 1000000
NegInfinity == 0 - Infinity
NaN == 0 - (2 * Infinity)
Undefined == 0 - (3 * Infinity)

IsFiniteNum(x) == x # NaN /\ x # Infinity /\ x # NegInfinity

\* a + b
jsAdd(a, b) ==
    IF a = NaN \/ b = NaN THEN NaN
    ELSE IF a = Infinity THEN (IF b = NegInfinity THEN NaN ELSE Infinity)
    ELSE IF a = NegInfinity THEN (IF b = Infinity THEN NaN ELSE NegInfinity)
    ELSE IF b = Infinity \/ b = NegInfinity THEN b
    ELSE a + b

\* a - b
jsSub(a, b) ==
    IF a = NaN \/ b = NaN THEN NaN
    ELSE IF a = Infinity THEN (IF b = Infinity THEN NaN ELSE Infinity)
    ELSE IF a = NegInfinity THEN (IF b = NegInfinity THEN NaN ELSE NegInfinity)
    ELSE IF b = Infinity THEN NegInfinity
    ELSE IF b = NegInfinity THEN Infinity
    ELSE a - b

\* a < b, a <= b, a >= b, a !== b: every comparison with NaN is false,
\* except !== which is true.
jsLt(a, b) == a # NaN /\ b # NaN /\ a < b
jsLe(a, b) == a # NaN /\ b # NaN /\ a <= b
jsGe(a, b) == a # NaN /\ b # NaN /\ a >= b
jsNe(a, b) == a = NaN \/ b = NaN \/ a # b

MathMax(a, b) == IF a = NaN \/ b = NaN THEN NaN ELSE IF a >= b THEN a ELSE b
MathMin(a, b) == IF a = NaN \/ b = NaN THEN NaN ELSE IF a <= b THEN a ELSE b

\* Math.floor of a raw message number (in halves): the result is in units.
MathFloor(h) == IF IsFiniteNum(h) THEN h \div 2 ELSE h

\* A stored number (units) as a raw number, for `msg.x ?? stored`.
ToRaw(x) == IF IsFiniteNum(x) THEN 2 * x ELSE x

\* a ?? b
Coalesce(a, b) == IF a = Undefined THEN b ELSE a

(***************************************************************************)
(* Sequences                                                               *)
(***************************************************************************)
RECURSIVE SumSeq(_)
SumSeq(s) == IF s = <<>> THEN 0 ELSE jsAdd(SumSeq(SubSeq(s, 1, Len(s) - 1)), s[Len(s)])

\* All orders of the elements of s.
Orders(s) ==
    LET n == Len(s)
        P == {p \in [1..n -> 1..n] : \A i, j \in 1..n : i # j => p[i] # p[j]}
    IN  {[k \in 1..n |-> s[p[k]]] : p \in P}

(***************************************************************************)
(* Bounds of the model                                                     *)
(***************************************************************************)
\* Date.now() returns values in 0..MaxClock.
MaxClock == 1

\* The values Date.now() can return for n successive calls, none earlier
\* than t0: the clock never runs backwards but may stand still.
TimeSeqs(t0, n) ==
    {s \in [1..n -> t0..MaxClock] : \A i, j \in 1..n : i <= j => s[i] <= s[j]}

(***************************************************************************)
(* A JavaScript Map: the sequence of its entries [key, val] in insertion   *)
(* order, with no key twice.                                               *)
(***************************************************************************)
mapKeys(m) == {m[i].key : i \in 1..Len(m)}

mapHas(m, k) == \E i \in 1..Len(m) : m[i].key = k

mapGet(m, k) == m[CHOOSE i \in 1..Len(m) : m[i].key = k].val

\* set keeps the place of a key the map holds and appends a new one
mapSet(m, k, v) ==
    IF mapHas(m, k)
    THEN [i \in 1..Len(m) |-> IF m[i].key = k THEN [key |-> k, val |-> v] ELSE m[i]]
    ELSE Append(m, [key |-> k, val |-> v])

mapDelete(m, k) == SelectSeq(m, LAMBDA e : e.key # k)

(***************************************************************************)
(* Room state (the shape documented at lines 19-30)                        *)
(*   hostId  : participant id, or nullId                                   *)
(*   config  : [budget, revealBids, allowJoinAfterLock]                    *)
(*   locked  : BOOLEAN                                                     *)
(*   topics  : sequence of [id, capacity]                                  *)
(*   players : Map playerId -> [spent]   (name and ws hold no core state;  *)
(*             a participant's ws is the connection of the same id)        *)
(*   bids    : Map playerId -> Map topicId -> [amount, ts]                 *)
(***************************************************************************)
nullId == 0

(***************************************************************************)
(* recomputeSpent (lines 96-105)                                           *)
(***************************************************************************)
spentOf(room, playerId) ==
    LET perTopic == IF mapHas(room.bids, playerId)
                    THEN mapGet(room.bids, playerId) ELSE <<>>
    IN  SumSeq([i \in 1..Len(perTopic) |-> perTopic[i].val.amount])

\* lines 96-105 with the total stored for every participant
recomputeSpentOfAll(room, playerId) ==
    [room EXCEPT !.players =
        [i \in 1..Len(@) |-> [@[i] EXCEPT !.val.spent = spentOf(room, playerId)]]]

recomputeSpent(room, playerId) ==
    IF mapHas(room.players, playerId)
    THEN [room EXCEPT !.players =
            mapSet(@, playerId, [mapGet(@, playerId) EXCEPT !.spent = spentOf(room, playerId)])]
    ELSE room

(***************************************************************************)
(* clampBidsToBudget (lines 440-480)                                       *)
(***************************************************************************)
\* lines 447-451: the entries, amounts floored and clamped to >= 0
clampEntries(perTopic) ==
    [i \in 1..Len(perTopic) |->
        [topicId |-> perTopic[i].key,
         amount  |-> MathMax(0, MathFloor(ToRaw(perTopic[i].val.amount))),
         ts      |-> perTopic[i].val.ts]]

\* line 453
clampTotal(entries) == SumSeq([i \in 1..Len(entries) |-> entries[i].amount])

\* lines 460-463: the comparator returns a negative number (a before b)
clampBefore(a, b) ==
    IF jsNe(a.amount, b.amount) THEN jsLt(jsSub(a.amount, b.amount), 0)
    ELSE b.ts < a.ts

\* Array.prototype.sort with clampBefore: stable, so entries that compare
\* equal keep their order.  With a NaN amount the comparator answers NaN
\* (taken as 0) against every other entry and is not a consistent
\* comparator: the order is then implementation-defined (any order).
clampSorted(entries) ==
    LET n == Len(entries)
        before(i, j) == clampBefore(entries[i], entries[j])
                        \/ (~clampBefore(entries[j], entries[i]) /\ i < j)
        pos(i) == 1 + Cardinality({j \in 1..n : j # i /\ before(j, i)})
    IN  IF \E i \in 1..n : entries[i].amount = NaN
        THEN Orders(entries)
        ELSE {[k \in 1..n |-> entries[CHOOSE i \in 1..n : pos(i) = k]]}

\* lines 465-473 with a loop that leaves after the first entry it trims
RECURSIVE trimFirstOnly(_, _)
trimFirstOnly(entries, over) ==
    IF entries = <<>> THEN <<>>
    ELSE IF jsLe(over, 0) THEN entries
    ELSE LET e == Head(entries)
         IN  IF jsLe(e.amount, 0)
             THEN <<e>> \o trimFirstOnly(Tail(entries), over)
             ELSE <<[e EXCEPT !.amount = jsSub(e.amount, MathMin(e.amount, over))]>>
                  \o Tail(entries)

\* lines 465-473: absorb the overage, walking the sorted entries
RECURSIVE trimLoop(_, _)
trimLoop(entries, over) ==
    IF entries = <<>> THEN <<>>
    ELSE IF jsLe(over, 0) THEN entries
    ELSE LET e == Head(entries)
         IN  IF jsLe(e.amount, 0)
             THEN <<e>> \o trimLoop(Tail(entries), over)
             ELSE LET take == MathMin(e.amount, over)
                  IN  <<[e EXCEPT !.amount = jsSub(e.amount, take)]>>
                      \o trimLoop(Tail(entries), jsSub(over, take))

\* lines 476-477: the new Map, every entry stamped with its own Date.now()
writeBack(entries, times) ==
    [i \in 1..Len(entries) |->
        [key |-> entries[i].topicId,
         val |-> [amount |-> entries[i].amount, ts |-> times[i]]]]

\* lines 447-477 on one participant's bid map: the possible new bid maps,
\* each with the last value Date.now() returned.  t0 is the latest value
\* Date.now() returned before the call.
clampPerTopic(perTopic, budget, t0) ==
    LET entries == clampEntries(perTopic)
        total == clampTotal(entries)
        n == Len(entries)
    IN  IF jsLe(total, budget)
        THEN {[perTopic |-> perTopic, now |-> t0]}
        ELSE {[perTopic |-> writeBack(trimLoop(sorted, jsSub(total, budget)), times),
               now      |-> IF n = 0 THEN t0 ELSE times[n]]
              : sorted \in clampSorted(entries), times \in TimeSeqs(t0, n)}

\* The whole function: the possible rooms after the call.
clampBidsToBudget(room, playerId, t0) ==
    IF ~mapHas(room.bids, playerId)
    THEN {[room |-> room, now |-> t0]}
    ELSE {[room |-> recomputeSpent(
                        [room EXCEPT !.bids = mapSet(@, playerId, c.perTopic)], playerId),
           now  |-> c.now]
          : c \in clampPerTopic(mapGet(room.bids, playerId), room.config.budget, t0)}

(***************************************************************************)
(* computeWinners (lines 116-296)                                          *)
(***************************************************************************)
\* the loop's safety ceiling (line 218)
SafetyCeiling == 1000

topicIds(topics) == {topics[i].id : i \in 1..Len(topics)}

\* lines 123-132: the candidates of topic id tid, in the iteration order of
\* room.bids
bidList(room, tid) ==
    LET cand(i) ==
            LET perTopic == room.bids[i].val
                amount == MathMax(0, MathFloor(ToRaw(mapGet(perTopic, tid).amount)))
            IN  IF mapHas(perTopic, tid) /\ ~jsLe(amount, 0)
                THEN <<[playerId |-> room.bids[i].key, amount |-> amount,
                        ts |-> mapGet(perTopic, tid).ts]>>
                ELSE <<>>
        RECURSIVE upTo(_)
        upTo(n) == IF n = 0 THEN <<>> ELSE upTo(n - 1) \o cand(n)
    IN  upTo(Len(room.bids))

\* lines 134-138: the comparator returns a negative number (a before b)
rankBefore(a, b) ==
    IF jsNe(b.amount, a.amount) THEN jsLt(jsSub(b.amount, a.amount), 0)
    ELSE IF a.ts # b.ts THEN a.ts < b.ts
    ELSE a.playerId < b.playerId

\* list.sort(...): as for the clamp, a NaN amount makes the comparator
\* inconsistent and the order implementation-defined.
rankSorted(list) ==
    LET n == Len(list)
        before(i, j) == rankBefore(list[i], list[j])
                        \/ (~rankBefore(list[j], list[i]) /\ i < j)
        pos(i) == 1 + Cardinality({j \in 1..n : j # i /\ before(j, i)})
    IN  IF \E i \in 1..n : list[i].amount = NaN
        THEN Orders(list)
        ELSE {[k \in 1..n |-> list[CHOOSE i \in 1..n : pos(i) = k]]}

\* lines 121-141: the possible bidLists maps, topic id -> sorted candidates
bidLists(room) ==
    LET ids == topicIds(room.topics)
        sorted == [tid \in ids |-> rankSorted(bidList(room, tid))]
    IN  {f \in [ids -> UNION {sorted[tid] : tid \in ids}] :
            \A tid \in ids : f[tid] \in sorted[tid]}

\* the first n entries' participants
firstPlayers(list, n) == {list[i].playerId : i \in 1..n}

\* lines 149-152 and 182-189: empty winner sets, then the tentative winners
\* of every topic in turn.  Both maps are keyed by topic id.
RECURSIVE tentative(_, _, _)
tentative(topics, lists, k) ==
    IF k = 0
    THEN [winnersByTopic |-> [tid \in topicIds(topics) |-> {}],
          nextIndex      |-> [tid \in topicIds(topics) |-> 0]]
    ELSE LET st == tentative(topics, lists, k - 1)
             t == topics[k]
             list == lists[t.id]
             m == MathMin(t.capacity, Len(list))
             \* for (i = 0; i < m; i++): no iteration when m is NaN
             n == IF m = NaN THEN 0 ELSE m
         IN  [winnersByTopic |-> [st.winnersByTopic EXCEPT
                                    ![t.id] = @ \cup firstPlayers(list, n)],
              nextIndex      |-> [st.nextIndex EXCEPT ![t.id] = m]]

\* lines 192-212 (buildPlayerWins): the wins of a participant, one entry
\* per element of topics whose winner set holds the participant
playerWins(topics, lists, winnersByTopic, pid) ==
    LET win(k) ==
            LET t == topics[k]
                list == lists[t.id]
                b == list[CHOOSE i \in 1..Len(list) : list[i].playerId = pid]
            IN  IF pid \in winnersByTopic[t.id]
                   /\ \E i \in 1..Len(list) : list[i].playerId = pid
                THEN <<[topicId |-> t.id, amount |-> b.amount, ts |-> b.ts]>>
                ELSE <<>>
        RECURSIVE upTo(_)
        upTo(n) == IF n = 0 THEN <<>> ELSE upTo(n - 1) \o win(n)
    IN  upTo(Len(topics))

\* lines 228-232: the comparator returns a negative number (a before b)
keepBefore(a, b) ==
    IF jsNe(b.amount, a.amount) THEN jsLt(jsSub(b.amount, a.amount), 0)
    ELSE IF a.ts # b.ts THEN a.ts < b.ts
    ELSE a.topicId < b.topicId

\* lines 228-234: the topic ids wins[0].topicId can be after the sort
keepTopic(wins) ==
    LET n == Len(wins)
    IN  IF \E i \in 1..n : wins[i].amount = NaN
        THEN {wins[i].topicId : i \in 1..n}
        ELSE {wins[i].topicId : i \in {i \in 1..n :
                                        \A j \in 1..n : ~keepBefore(wins[j], wins[i])}}

\* lines 222-235 with line 226 reading wins.length <= 2
keepByPlayerOverTwo(topics, lists, winnersByTopic) ==
    LET W == UNION {winnersByTopic[tid] : tid \in DOMAIN winnersByTopic}
        multi == {pid \in W : Len(playerWins(topics, lists, winnersByTopic, pid)) > 2}
    IN  {f \in [multi -> topicIds(topics)] :
            \A pid \in multi :
                f[pid] \in keepTopic(playerWins(topics, lists, winnersByTopic, pid))}

\* lines 222-235: the possible keepByPlayer maps
keepByPlayer(topics, lists, winnersByTopic) ==
    LET W == UNION {winnersByTopic[tid] : tid \in DOMAIN winnersByTopic}
        multi == {pid \in W : Len(playerWins(topics, lists, winnersByTopic, pid)) > 1}
    IN  {f \in [multi -> topicIds(topics)] :
            \A pid \in multi :
                f[pid] \in keepTopic(playerWins(topics, lists, winnersByTopic, pid))}

\* lines 238-247: drop every participant from the topics he does not keep
dropped(winnersByTopic, keep) ==
    [tid \in DOMAIN winnersByTopic |->
        {pid \in winnersByTopic[tid] : pid \notin DOMAIN keep \/ keep[pid] = tid}]

\* lines 264-272: the refill of one topic, from position idx of its list
RECURSIVE refillTopic(_, _, _, _, _, _)
refillTopic(capacity, list, idx, winners, winningPlayers, changed) ==
    IF jsLt(Cardinality(winners), capacity) /\ jsLt(idx, Len(list))
    THEN LET cand == list[idx + 1]
         IN  IF cand.playerId \in winners \/ cand.playerId \in winningPlayers
             THEN refillTopic(capacity, list, idx + 1, winners, winningPlayers, changed)
             ELSE refillTopic(capacity, list, idx + 1,
                              winners \cup {cand.playerId},
                              winningPlayers \cup {cand.playerId}, TRUE)
    ELSE [idx |-> idx, winners |-> winners,
          winningPlayers |-> winningPlayers, changed |-> changed]

\* lines 257-275: the refill of every topic in turn
RECURSIVE refill(_, _, _, _)
refill(topics, lists, st, k) ==
    IF k = 0 THEN st
    ELSE LET s == refill(topics, lists, st, k - 1)
             t == topics[k]
             r == refillTopic(t.capacity, lists[t.id], s.nextIndex[t.id],
                              s.winnersByTopic[t.id], s.winningPlayers, s.changed)
         IN  IF jsGe(Cardinality(s.winnersByTopic[t.id]), t.capacity)
             THEN s
             ELSE [winnersByTopic |-> [s.winnersByTopic EXCEPT ![t.id] = r.winners],
                   nextIndex      |-> [s.nextIndex EXCEPT ![t.id] = r.idx],
                   winningPlayers |-> r.winningPlayers,
                   changed        |-> r.changed]

\* lines 219-275: one pass of the resolution loop with keepByPlayer = keep
resolvePass(topics, lists, st, keep) ==
    LET kept == dropped(st.winnersByTopic, keep)
        r == refill(topics, lists,
                    [winnersByTopic |-> kept,
                     nextIndex      |-> st.nextIndex,
                     winningPlayers |-> UNION {kept[tid] : tid \in DOMAIN kept},
                     changed        |-> kept # st.winnersByTopic],
                    Len(topics))
    IN  [winnersByTopic |-> r.winnersByTopic,
         nextIndex      |-> r.nextIndex,
         changed        |-> r.changed,
         safety         |-> st.safety]

\* line 218 with a ceiling of one pass
loopEntersOnce(st) == st.changed /\ st.safety < 1

\* line 218: while (changed && safety++ < 1000)
loopEnters(st) == st.changed /\ st.safety < SafetyCeiling

\* the state after the loop condition was evaluated
loopTested(st) == IF st.changed THEN [st EXCEPT !.safety = @ + 1] ELSE st

\* lines 215-276: the states the loop can end in
RECURSIVE resolve(_, _, _)
resolve(topics, lists, st) ==
    IF loopEnters(st)
    THEN UNION {resolve(topics, lists, resolvePass(topics, lists, loopTested(st), keep))
                : keep \in keepByPlayer(topics, lists, st.winnersByTopic)}
    ELSE {loopTested(st)}

\* lines 143-216: the state the loop starts in
loopStart(topics, lists) ==
    LET st == tentative(topics, lists, Len(topics))
    IN  [winnersByTopic |-> st.winnersByTopic, nextIndex |-> st.nextIndex,
         changed |-> TRUE, safety |-> 0]

\* lines 279-295: the result built from the final winner sets
buildResult(topics, winnersByTopic) ==
    LET W == UNION {winnersByTopic[tid] : tid \in DOMAIN winnersByTopic}
        last(pid) == CHOOSE k \in 1..Len(topics) :
                        /\ pid \in winnersByTopic[topics[k].id]
                        /\ \A j \in (k + 1)..Len(topics) :
                              pid \notin winnersByTopic[topics[j].id]
    IN  [winnersByTopic     |-> winnersByTopic,
         assignmentByPlayer |-> [pid \in W |-> topics[last(pid)].id]]

\* the whole function: the results it can return for the room
computeWinners(room) ==
    {buildResult(room.topics, st.winnersByTopic)
     : st \in UNION {resolve(room.topics, lists, loopStart(room.topics, lists))
                     : lists \in bidLists(room)}}

(***************************************************************************)
(* The server: connections, the room store and the message handlers        *)
(* (lines 17-51 and 298-438)                                               *)
(***************************************************************************)
\* Connections ever opened; connection c's participant id (line 299) is c.
NumConns == 3
Conns == 1..NumConns

\* What a connection's `room` variable (line 300) refers to besides a room
\* of the store (then it is the room's code): null, or a
\* room object that was removed from the store (such an object has no
\* participants and nothing can add one, so all of them are alike).
nullRoom == "null"
detachedRoom == "detached"

\* line 311: String(msg.roomId ?? "").trim().toUpperCase(), on the raw
\* room codes the model sends ("absent" is a message without roomId)
normalizeRoomId(raw) ==
    CASE raw = "x" -> "X"
      [] raw = "X" -> "X"
      [] raw = " y " -> "Y"
      [] raw = "  " -> ""
      [] raw = "absent" -> ""

(***************************************************************************)
(* The messages the model sends.  Numeric fields are raw (halves).         *)
(* Spec follows three connections through two rooms with few message      *)
(* values; SpecAuction follows two connections in one room with more.      *)
(***************************************************************************)
RawRoomIds == {"x", " y ", "  "}

\* set_config: budget 1.5; both flags false
ConfigInputs ==
    {[budget |-> 3, revealBids |-> "absent", allowJoinAfterLock |-> "absent"],
     [budget |-> Undefined, revealBids |-> "false", allowJoinAfterLock |-> "false"]}

\* set_topics: two topics
TopicLists ==
    {<<[id |-> 1, capacity |-> Undefined], [id |-> 2, capacity |-> 3]>>}

\* bid: on topic 1, amount 2
TopicIdInputs == {1}
AmountInputs == {4}

\* events handled in a run of Spec
MaxEvents == 5

AuctionConns == {1, 2}
AuctionRoomIds == {"X", "absent"}

\* set_config: budget 1.5; budget "abc"; both flags true
AuctionConfigs ==
    {[budget |-> 3, revealBids |-> "absent", allowJoinAfterLock |-> "absent"],
     [budget |-> NaN, revealBids |-> "absent", allowJoinAfterLock |-> "absent"],
     [budget |-> Undefined, revealBids |-> "true", allowJoinAfterLock |-> "true"]}

\* set_topics: two topics; two topics with the same id; one topic
AuctionTopicLists ==
    {<<[id |-> 1, capacity |-> Undefined], [id |-> 2, capacity |-> 3]>>,
     <<[id |-> 1, capacity |-> 2], [id |-> 1, capacity |-> 5]>>,
     <<[id |-> 2, capacity |-> NaN]>>}

\* bid: on topics 1, 2 and 3, amounts absent, 1.5, 2 and "abc"
AuctionTopicIds == {1, 2, 3}
AuctionAmounts == {Undefined, 3, 4, NaN}

\* events handled in a run of SpecAuction
MaxAuctionEvents == 6

\* SpecBids: two connections in room X; set_config with budget 1.5;
\* set_topics with topics 1 and 2 or with topic 2 alone; bids of 2 on topics
\* 1, 2 and 3
BidsConns == {1, 2}
BidsRoomIds == {"x"}
BidsConfigs == {[budget |-> 3, revealBids |-> "absent", allowJoinAfterLock |-> "absent"]}
BidsTopicLists ==
    {<<[id |-> 1, capacity |-> Undefined], [id |-> 2, capacity |-> 3]>>,
     <<[id |-> 2, capacity |-> 3]>>}
BidsTopicIds == {1, 2, 3}
BidsAmounts == {4}

\* events handled in a run of SpecBids
MaxBidsEvents == 7

VARIABLES
    rooms,  \* the Map `rooms` (line 17): room code -> room state
    conns,  \* per connection: open (ws.readyState is OPEN) and `room`
    now,    \* the latest value Date.now() returned
    ev,     \* the last event handled: [type, conn]
    sent,   \* the notifications that event sent: [to, type, room, winners]
    steps,  \* the number of events handled
    call    \* a call of clampBidsToBudget or computeWinners followed step
            \* by step (SpecClamp, SpecWinners); [pc |-> "none"] otherwise

vars == <<rooms, conns, now, ev, sent, steps, call>>

\* lines 35-47 with a room that starts closed to joins after a lock
newRoomClosedAfterLock ==
    [hostId  |-> nullId,
     config  |-> [budget |-> 100, revealBids |-> TRUE, allowJoinAfterLock |-> FALSE],
     locked  |-> FALSE,
     topics  |-> <<>>,
     players |-> <<>>,
     bids    |-> <<>>]

\* lines 35-47
newRoom ==
    [hostId  |-> nullId,
     config  |-> [budget |-> 100, revealBids |-> TRUE, allowJoinAfterLock |-> TRUE],
     locked  |-> FALSE,
     topics  |-> <<>>,
     players |-> <<>>,
     bids    |-> <<>>]

\* lines 32-51: the store after the call
getOrCreateRoom(store, roomId) ==
    IF roomId \in DOMAIN store THEN store
    ELSE [r \in DOMAIN store \cup {roomId} |->
            IF r = roomId THEN newRoom ELSE store[r]]

noWinners == [winnersByTopic |-> <<>>, assignmentByPlayer |-> <<>>]

\* an error has no room; joined and room_update carry the room's snapshot
note(c, type, roomId) ==
    [to |-> c, type |-> type, room |-> roomId, winners |-> noWinners]

\* lines 53-55
wsSend(cs, msg) == IF cs[msg.to].open THEN {msg} ELSE {}

\* lines 57-63
broadcast(cs, roomId, room, type, winners) ==
    UNION {wsSend(cs, [to |-> pid, type |-> type, room |-> roomId, winners |-> winners])
           : pid \in mapKeys(room.players)}

\* line 340: the connection has a room and is one of its participants
joined(c) ==
    /\ conns[c].room \in DOMAIN rooms
    /\ mapHas(rooms[conns[c].room].players, c)

\* line 342
isHost(c) == rooms[conns[c].room].hostId = c

\* lines 17 and 298-300: no room, every connection without a room
started ==
    /\ rooms = [r \in {} |-> newRoom]
    /\ conns = [c \in Conns |-> [open |-> TRUE, room |-> nullRoom]]
    /\ now = 0
    /\ ev = [type |-> "none", conn |-> nullId]
    /\ sent = {}
    /\ steps = 0

Init == started /\ call = [pc |-> "none"]

\* a message that no branch of the handler takes (lines 340-416)
ignored(c, type) ==
    /\ ev' = [type |-> type, conn |-> c]
    /\ sent' = {}
    /\ UNCHANGED <<rooms, conns, now>>

\* lines 310-337
join(c, raw) ==
    LET roomId == normalizeRoomId(raw)
        store == getOrCreateRoom(rooms, roomId)
        room == store[roomId]
        hosted == [room EXCEPT !.hostId = IF @ = nullId THEN c ELSE @]
        added == [hosted EXCEPT
                    !.players = mapSet(@, c, [spent |-> 0]),
                    !.bids = IF mapHas(@, c) THEN @ ELSE mapSet(@, c, <<>>)]
        after == recomputeSpent(added, c)
    IN  /\ conns[c].open
        /\ ev' = [type |-> "join", conn |-> c]
        /\ IF roomId = ""
           THEN /\ sent' = wsSend(conns, note(c, "error", ""))
                /\ UNCHANGED <<rooms, conns, now>>
           ELSE IF room.locked /\ ~room.config.allowJoinAfterLock
           THEN /\ rooms' = store
                /\ conns' = [conns EXCEPT ![c].room = roomId]
                /\ sent' = wsSend(conns, note(c, "error", ""))
                /\ UNCHANGED now
           ELSE /\ rooms' = [store EXCEPT ![roomId] = after]
                /\ conns' = [conns EXCEPT ![c].room = roomId]
                /\ sent' = wsSend(conns, note(c, "joined", roomId))
                           \cup broadcast(conns, roomId, after, "room_update", noWinners)
                /\ UNCHANGED now

\* the room of connection c put back into the store
withRoom(c, room) == [rooms EXCEPT ![conns[c].room] = room]

\* lines 352-354: the clamp run for each key in turn
RECURSIVE clampEach(_, _, _)
clampEach(room, keys, t0) ==
    IF keys = <<>> THEN {[room |-> room, now |-> t0]}
    ELSE UNION {clampEach(r.room, Tail(keys), r.now)
                : r \in clampBidsToBudget(room, Head(keys), t0)}

keySeq(m) == [i \in 1..Len(m) |-> m[i].key]

\* lines 348-349: a field is taken only when it is a boolean
boolField(raw, old) ==
    IF raw = "true" THEN TRUE ELSE IF raw = "false" THEN FALSE ELSE old

\* line 345
toBudget(raw, old) ==
    MathMax(1, MathMin(10000, MathFloor(Coalesce(raw, ToRaw(old)))))

\* line 344 without its isHost() test
setConfigAppliesToAnyone(c) == joined(c)

\* lines 344-358
setConfigApplies(c) == joined(c) /\ isHost(c)

set_config(c, budget, revealBids, allowJoinAfterLock) ==
    LET room == rooms[conns[c].room]
        configured ==
            [room EXCEPT !.config =
                [budget |-> toBudget(budget, room.config.budget),
                 revealBids |-> boolField(revealBids, room.config.revealBids),
                 allowJoinAfterLock |->
                    boolField(allowJoinAfterLock, room.config.allowJoinAfterLock)]]
    IN  /\ conns[c].open
        /\ IF setConfigApplies(c)
           THEN \E r \in clampEach(configured, keySeq(room.players), now) :
                    /\ rooms' = withRoom(c, r.room)
                    /\ now' = r.now
                    /\ sent' = broadcast(conns, conns[c].room, r.room, "room_update", noWinners)
                    /\ ev' = [type |-> "set_config", conn |-> c]
                    /\ UNCHANGED conns
           ELSE ignored(c, "set_config")

\* line 365
toCapacity(raw) == MathMax(1, MathMin(20, MathFloor(Coalesce(raw, ToRaw(1)))))

\* the topic list is cut to this many entries (line 362)
TopicsLimit == 50

\* lines 361-366 (every raw topic of the model carries its id)
toTopics(topicsRaw) ==
    LET cut == SubSeq(topicsRaw, 1, IF Len(topicsRaw) < TopicsLimit
                                    THEN Len(topicsRaw) ELSE TopicsLimit)
    IN  [i \in 1..Len(cut) |->
            [id |-> cut[i].id, capacity |-> toCapacity(cut[i].capacity)]]

\* lines 371-373 with no bid deleted
prunedNothing(perTopic, ids) == perTopic

\* lines 371-373: the bids on topics that are gone are deleted
pruned(perTopic, ids) == SelectSeq(perTopic, LAMBDA e : e.key \in ids)

\* lines 370-376: prune, recompute and clamp each bid map in turn
RECURSIVE pruneEach(_, _, _)
pruneEach(room, keys, t0) ==
    IF keys = <<>> THEN {[room |-> room, now |-> t0]}
    ELSE LET pid == Head(keys)
             cut == [room EXCEPT !.bids =
                        mapSet(@, pid, pruned(mapGet(@, pid), topicIds(room.topics)))]
         IN  UNION {pruneEach(r.room, Tail(keys), r.now)
                    : r \in clampBidsToBudget(recomputeSpent(cut, pid), pid, t0)}

\* lines 360-380
setTopicsApplies(c) == joined(c) /\ isHost(c)

set_topics(c, topicsRaw) ==
    LET room == rooms[conns[c].room]
        replaced == [room EXCEPT !.topics = toTopics(topicsRaw)]
    IN  /\ conns[c].open
        /\ IF setTopicsApplies(c)
           THEN \E r \in pruneEach(replaced, keySeq(room.bids), now) :
                    /\ rooms' = withRoom(c, r.room)
                    /\ now' = r.now
                    /\ sent' = broadcast(conns, conns[c].room, r.room, "room_update", noWinners)
                    /\ ev' = [type |-> "set_topics", conn |-> c]
                    /\ UNCHANGED conns
           ELSE ignored(c, "set_topics")

\* lines 382-392
lockApplies(c) == joined(c) /\ isHost(c)

\* lines 382-392 with an unlock that also empties every bid map
setLockedNewRound(c, type, locked) ==
    LET room == [rooms[conns[c].room] EXCEPT
                    !.locked = locked,
                    !.bids = IF locked THEN @
                             ELSE [i \in 1..Len(@) |-> [@[i] EXCEPT !.val = <<>>]]]
    IN  /\ conns[c].open
        /\ IF lockApplies(c)
           THEN /\ rooms' = withRoom(c, room)
                /\ sent' = broadcast(conns, conns[c].room, room, "room_update", noWinners)
                /\ ev' = [type |-> type, conn |-> c]
                /\ UNCHANGED <<conns, now>>
           ELSE ignored(c, type)

setLocked(c, type, locked) ==
    LET room == [rooms[conns[c].room] EXCEPT !.locked = locked]
    IN  /\ conns[c].open
        /\ IF lockApplies(c)
           THEN /\ rooms' = withRoom(c, room)
                /\ sent' = broadcast(conns, conns[c].room, room, "room_update", noWinners)
                /\ ev' = [type |-> type, conn |-> c]
                /\ UNCHANGED <<conns, now>>
           ELSE ignored(c, type)

lock_bids(c) == setLocked(c, "lock_bids", TRUE)

unlock_bids(c) == setLocked(c, "unlock_bids", FALSE)

\* line 396
toAmount(raw) == MathMax(0, MathFloor(Coalesce(raw, ToRaw(0))))

\* line 394 without its !room.locked test
bidAppliesWhenLocked(c, topicId) ==
    /\ joined(c)
    /\ topicId \in topicIds(rooms[conns[c].room].topics)

\* line 394 and line 399
bidApplies(c, topicId) ==
    /\ joined(c)
    /\ ~rooms[conns[c].room].locked
    /\ topicId \in topicIds(rooms[conns[c].room].topics)

\* lines 394-410
bid(c, topicId, amount) ==
    LET room == rooms[conns[c].room]
        perTopic == IF mapHas(room.bids, c) THEN mapGet(room.bids, c) ELSE <<>>
        placed(t) == [room EXCEPT !.bids =
                        mapSet(@, c, mapSet(perTopic, topicId,
                                            [amount |-> toAmount(amount), ts |-> t]))]
    IN  /\ conns[c].open
        /\ IF bidApplies(c, topicId)
           THEN \E t \in now..MaxClock :
                \E r \in clampBidsToBudget(placed(t), c, t) :
                    /\ rooms' = withRoom(c, r.room)
                    /\ now' = r.now
                    /\ sent' = broadcast(conns, conns[c].room, r.room, "room_update", noWinners)
                    /\ ev' = [type |-> "bid", conn |-> c]
                    /\ UNCHANGED conns
           ELSE ignored(c, "bid")

\* lines 412-416
computeApplies(c) == joined(c) /\ isHost(c)

\* lines 412-416 with a handler that also closes the bidding
compute_winners_locking(c) ==
    /\ conns[c].open
    /\ IF computeApplies(c)
       THEN \E winners \in computeWinners(rooms[conns[c].room]) :
                /\ rooms' = withRoom(c, [rooms[conns[c].room] EXCEPT !.locked = TRUE])
                /\ sent' = broadcast(conns, conns[c].room, rooms[conns[c].room],
                                     "winners", winners)
                /\ ev' = [type |-> "compute_winners", conn |-> c]
                /\ UNCHANGED <<conns, now>>
       ELSE ignored(c, "compute_winners")

compute_winners(c) ==
    /\ conns[c].open
    /\ IF computeApplies(c)
       THEN \E winners \in computeWinners(rooms[conns[c].room]) :
                /\ sent' = broadcast(conns, conns[c].room, rooms[conns[c].room],
                                     "winners", winners)
                /\ ev' = [type |-> "compute_winners", conn |-> c]
                /\ UNCHANGED <<rooms, conns, now>>
       ELSE ignored(c, "compute_winners")

\* line 429 with a handoff that names nobody
noKey(m) == nullId

\* line 429: the first key of the Map, or null
firstKey(m) == IF m = <<>> THEN nullId ELSE m[1].key

\* lines 419-437; the connection is closed when the handler runs
close(c) ==
    LET closed == [conns EXCEPT ![c].open = FALSE]
        roomId == conns[c].room
        room == rooms[roomId]
        left == [room EXCEPT !.players = mapDelete(@, c), !.bids = mapDelete(@, c)]
        after == [left EXCEPT !.hostId = IF @ = c THEN firstKey(left.players) ELSE @]
    IN  /\ conns[c].open
        /\ ev' = [type |-> "close", conn |-> c]
        /\ UNCHANGED now
        /\ IF roomId \in DOMAIN rooms /\ mapHas(room.players, c)
           THEN IF after.players = <<>>
                THEN /\ rooms' = [r \in DOMAIN rooms \ {roomId} |-> rooms[r]]
                     /\ conns' = [d \in Conns |->
                                    IF closed[d].room = roomId
                                    THEN [closed[d] EXCEPT !.room = detachedRoom]
                                    ELSE closed[d]]
                     /\ sent' = {}
                ELSE /\ rooms' = [rooms EXCEPT ![roomId] = after]
                     /\ conns' = closed
                     /\ sent' = broadcast(closed, roomId, after, "room_update", noWinners)
           ELSE /\ conns' = closed
                /\ sent' = {}
                /\ UNCHANGED rooms

\* one more event is handled, of at most n
Step(n) == steps < n /\ steps' = steps + 1 /\ call' = call

Join == \E c \in Conns, raw \in RawRoomIds : Step(MaxEvents) /\ join(c, raw)

SetConfig ==
    \E c \in Conns, m \in ConfigInputs :
        Step(MaxEvents) /\ set_config(c, m.budget, m.revealBids, m.allowJoinAfterLock)

SetTopics == \E c \in Conns, ts \in TopicLists : Step(MaxEvents) /\ set_topics(c, ts)

LockBids == \E c \in Conns : Step(MaxEvents) /\ lock_bids(c)

UnlockBids == \E c \in Conns : Step(MaxEvents) /\ unlock_bids(c)

Bid ==
    \E c \in Conns, t \in TopicIdInputs, a \in AmountInputs :
        Step(MaxEvents) /\ bid(c, t, a)

ComputeWinners == \E c \in Conns : Step(MaxEvents) /\ compute_winners(c)

Close == \E c \in Conns : Step(MaxEvents) /\ close(c)

Next ==
    \/ Join
    \/ SetConfig
    \/ SetTopics
    \/ LockBids
    \/ UnlockBids
    \/ Bid
    \/ ComputeWinners
    \/ Close

Spec == Init /\ [][Next]_vars

AuctionJoin ==
    \E c \in AuctionConns, raw \in AuctionRoomIds :
        Step(MaxAuctionEvents) /\ join(c, raw)

AuctionSetConfig ==
    \E c \in AuctionConns, m \in AuctionConfigs :
        /\ Step(MaxAuctionEvents)
        /\ set_config(c, m.budget, m.revealBids, m.allowJoinAfterLock)

AuctionSetTopics ==
    \E c \in AuctionConns, ts \in AuctionTopicLists :
        Step(MaxAuctionEvents) /\ set_topics(c, ts)

AuctionLockBids == \E c \in AuctionConns : Step(MaxAuctionEvents) /\ lock_bids(c)

AuctionUnlockBids == \E c \in AuctionConns : Step(MaxAuctionEvents) /\ unlock_bids(c)

AuctionBid ==
    \E c \in AuctionConns, t \in AuctionTopicIds, a \in AuctionAmounts :
        Step(MaxAuctionEvents) /\ bid(c, t, a)

AuctionComputeWinners ==
    \E c \in AuctionConns : Step(MaxAuctionEvents) /\ compute_winners(c)

AuctionClose == \E c \in AuctionConns : Step(MaxAuctionEvents) /\ close(c)

NextAuction ==
    \/ AuctionJoin
    \/ AuctionSetConfig
    \/ AuctionSetTopics
    \/ AuctionLockBids
    \/ AuctionUnlockBids
    \/ AuctionBid
    \/ AuctionComputeWinners
    \/ AuctionClose

SpecAuction == Init /\ [][NextAuction]_vars

(***************************************************************************)
(* SpecBids: the handlers that read or write the stored bids, with         *)
(* well-formed messages, topics that come and go and a budget that trims.  *)
(***************************************************************************)
BidsJoin ==
    \E c \in BidsConns, raw \in BidsRoomIds : Step(MaxBidsEvents) /\ join(c, raw)

BidsSetConfig ==
    \E c \in BidsConns, m \in BidsConfigs :
        /\ Step(MaxBidsEvents)
        /\ set_config(c, m.budget, m.revealBids, m.allowJoinAfterLock)

BidsSetTopics ==
    \E c \in BidsConns, ts \in BidsTopicLists :
        Step(MaxBidsEvents) /\ set_topics(c, ts)

BidsLockBids == \E c \in BidsConns : Step(MaxBidsEvents) /\ lock_bids(c)

BidsUnlockBids == \E c \in BidsConns : Step(MaxBidsEvents) /\ unlock_bids(c)

BidsBid ==
    \E c \in BidsConns, t \in BidsTopicIds, a \in BidsAmounts :
        Step(MaxBidsEvents) /\ bid(c, t, a)

BidsClose == \E c \in BidsConns : Step(MaxBidsEvents) /\ close(c)

NextBids ==
    \/ BidsJoin
    \/ BidsSetConfig
    \/ BidsSetTopics
    \/ BidsLockBids
    \/ BidsUnlockBids
    \/ BidsBid
    \/ BidsClose

SpecBids == Init /\ [][NextBids]_vars

(***************************************************************************)
(* SpecClamp: one call of clampBidsToBudget and a second call on its       *)
(* result, for one participant and every bid map the handlers can pass.    *)
(***************************************************************************)
\* entries of the bid map, and the largest finite amount
MaxBids == 2
MaxAmount == 2

\* amounts line 396 can store, and budgets line 345 can store
ClampAmounts == (0..MaxAmount) \cup {NaN, Infinity}
ClampBudgets == {1, 2, 4, NaN}

\* the amounts a participant has stored, in Map order
amountsOf(perTopic) == [i \in 1..Len(perTopic) |-> perTopic[i].val.amount]

\* bid maps on the topics 1..n
ClampMaps ==
    UNION {{[i \in 1..n |-> [key |-> i, val |-> v[i]]]
            : v \in [1..n -> [amount : ClampAmounts, ts : 0..MaxClock]]}
           : n \in 0..MaxBids}

\* The maps the three call sites pass (lines 353, 375 and 406).  Between
\* events a map holds finite amounts within the budget or, once a clamp met
\* a NaN, amounts that are 0 or NaN.  set_config and set_topics pass such a
\* map under a budget that may have changed; bid passes one with one entry
\* set to any amount line 396 can produce.
clampCallable(perTopic, budget) ==
    LET a == amountsOf(perTopic)
        n == Len(a)
        rest(i) == SelectSeq([j \in 1..n |-> IF j = i THEN 0 ELSE a[j]], LAMBDA x : TRUE)
    IN  \/ \A i \in 1..n : IsFiniteNum(a[i])
        \/ \E i \in 1..n :
            \/ /\ \A j \in 1..n : j # i => IsFiniteNum(a[j])
               /\ jsLe(SumSeq(rest(i)), budget)
            \/ \A j \in 1..n : j # i => a[j] \in {0, NaN}

\* the room of the call: participant 1 alone, holding the map
clampRoom(perTopic, budget) ==
    recomputeSpent(
        [newRoom EXCEPT !.hostId = 1,
                        !.config.budget = budget,
                        !.players = <<[key |-> 1, val |-> [spent |-> 0]]>>,
                        !.bids = <<[key |-> 1, val |-> perTopic]>>], 1)

\* t0 is the latest value Date.now() returned before the call
InitClamp ==
    /\ started
    /\ \E m \in ClampMaps, b \in ClampBudgets, t \in 0..MaxClock :
          /\ clampCallable(m, b)
          /\ \A i \in 1..Len(m) : m[i].val.ts <= t
          /\ call = [pc |-> "clamp", room |-> clampRoom(m, b), t0 |-> t,
                     first |-> <<>>, second |-> <<>>]

ClampOnce ==
    /\ call.pc = "clamp"
    /\ \E r \in clampBidsToBudget(call.room, 1, call.t0) :
          call' = [call EXCEPT !.pc = "clamped", !.first = r]
    /\ UNCHANGED <<rooms, conns, now, ev, sent, steps>>

ClampTwice ==
    /\ call.pc = "clamped"
    /\ \E r \in clampBidsToBudget(call.first.room, 1, call.first.now) :
          call' = [call EXCEPT !.pc = "reclamped", !.second = r]
    /\ UNCHANGED <<rooms, conns, now, ev, sent, steps>>

NextClamp ==
    \/ ClampOnce
    \/ ClampTwice

SpecClamp == InitClamp /\ [][NextClamp]_vars

(***************************************************************************)
(* SpecWinners: one call of computeWinners followed through its loop, for  *)
(* every room of the bidders 1..NumBidders over the topic lists below.      *)
(***************************************************************************)
NumBidders == 2
Bidders == 1..NumBidders

\* stored topic lists (lines 361-367): different capacities, the two orders
\* of the topics, one id twice, a capacity that is NaN
WinnersTopicLists ==
    {<<[id |-> 1, capacity |-> 1], [id |-> 2, capacity |-> 1]>>,
     <<[id |-> 2, capacity |-> 1], [id |-> 1, capacity |-> 2]>>,
     <<[id |-> 1, capacity |-> 2], [id |-> 2, capacity |-> 2]>>,
     <<[id |-> 1, capacity |-> 1], [id |-> 1, capacity |-> 2]>>,
     <<[id |-> 1, capacity |-> NaN], [id |-> 2, capacity |-> 1]>>}

\* stored bids: a low one, a high one, and a later high one
WinnersBids ==
    {[amount |-> 1, ts |-> 0], [amount |-> 2, ts |-> 0], [amount |-> 2, ts |-> 1]}

\* what a participant can hold on topic tid: nothing, or a bid
bidChoices(tid) == {<<>>} \cup {<<[key |-> tid, val |-> b]>> : b \in WinnersBids}

\* The bid maps of a participant on the topics 1 and 2: finite amounts
\* within the default budget or, after a clamp that met a NaN, NaN amounts.
WinnersBidMaps ==
    {x \o y : x \in bidChoices(1), y \in bidChoices(2)}
    \cup {<<[key |-> 1, val |-> [amount |-> NaN, ts |-> 0]],
            [key |-> 2, val |-> [amount |-> NaN, ts |-> 0]]>>}

\* the room of the call: the bidders joined in turn and placed their bids
winnersRoom(topics, maps) ==
    [newRoom EXCEPT
        !.hostId = 1,
        !.topics = topics,
        !.players = [i \in Bidders |-> [key |-> i, val |-> [spent |-> spentOf(
                        [bids |-> <<[key |-> i, val |-> maps[i]]>>], i)]]],
        !.bids = [i \in Bidders |-> [key |-> i, val |-> maps[i]]]]

InitWinners ==
    /\ started
    /\ \E topics \in WinnersTopicLists, maps \in [Bidders -> WinnersBidMaps] :
          call = [pc |-> "sort", room |-> winnersRoom(topics, maps),
                  lists |-> <<>>, st |-> <<>>, result |-> <<>>]

\* lines 121-216: the bid lists are sorted and the tentative winners taken
WinnersStart ==
    /\ call.pc = "sort"
    /\ \E lists \in bidLists(call.room) :
          call' = [call EXCEPT !.pc = "loop", !.lists = lists,
                               !.st = loopStart(call.room.topics, lists)]
    /\ UNCHANGED <<rooms, conns, now, ev, sent, steps>>

\* lines 218-276: the loop condition holds and one pass runs
WinnersPass ==
    /\ call.pc = "loop"
    /\ loopEnters(call.st)
    /\ \E keep \in keepByPlayer(call.room.topics, call.lists, call.st.winnersByTopic) :
          call' = [call EXCEPT !.st = resolvePass(call.room.topics, call.lists,
                                                  loopTested(call.st), keep)]
    /\ UNCHANGED <<rooms, conns, now, ev, sent, steps>>

\* lines 218 and 279-295: the loop condition fails and the result is built
WinnersReturn ==
    /\ call.pc = "loop"
    /\ ~loopEnters(call.st)
    /\ call' = [call EXCEPT !.pc = "done", !.st = loopTested(call.st),
                            !.result = buildResult(call.room.topics,
                                                   call.st.winnersByTopic)]
    /\ UNCHANGED <<rooms, conns, now, ev, sent, steps>>

NextWinners ==
    \/ WinnersStart
    \/ WinnersPass
    \/ WinnersReturn

SpecWinners == InitWinners /\ [][NextWinners]_vars

(***************************************************************************)
(* SpecRanking: the same call for three bidders, so that a ranking can     *)
(* hold two numbers and a NaN, over two topic lists with distinct ids.      *)
(***************************************************************************)
RankingBidders == {1, 2, 3}

RankingTopicLists ==
    {<<[id |-> 1, capacity |-> 1], [id |-> 2, capacity |-> 1]>>,
     <<[id |-> 2, capacity |-> 1], [id |-> 1, capacity |-> 2]>>}

\* the room of the call: the bidders joined in turn and placed their bids
rankingRoom(topics, maps) ==
    [newRoom EXCEPT
        !.hostId = 1,
        !.topics = topics,
        !.players = [i \in RankingBidders |-> [key |-> i, val |-> [spent |-> spentOf(
                        [bids |-> <<[key |-> i, val |-> maps[i]]>>], i)]]],
        !.bids = [i \in RankingBidders |-> [key |-> i, val |-> maps[i]]]]

InitRanking ==
    /\ started
    /\ \E topics \in RankingTopicLists, maps \in [RankingBidders -> WinnersBidMaps] :
          call = [pc |-> "sort", room |-> rankingRoom(topics, maps),
                  lists |-> <<>>, st |-> <<>>, result |-> <<>>]

SpecRanking == InitRanking /\ [][NextWinners]_vars

(***************************************************************************)
(* Properties of the room machine.                                         *)
(***************************************************************************)
\* the winners messages of the last event
winnersSent == {m \in sent : m.type = "winners"}

\* the room the last event was routed to
eventRoom == rooms[conns[ev.conn].room]

\* C1: in every room, after every event, the bid amounts of each participant
\* sum to at most room.config.budget.
C1_BudgetRespected ==
    \A r \in DOMAIN rooms :
        \A i \in 1..Len(rooms[r].bids) :
            jsLe(SumSeq(amountsOf(rooms[r].bids[i].val)), rooms[r].config.budget)

\* C3: in the result of compute_winners no topic of the stored list has more
\* winners than its capacity.
C3_WinnersWithinCapacity ==
    \A m \in winnersSent :
        \A k \in 1..Len(eventRoom.topics) :
            ~jsLt(eventRoom.topics[k].capacity,
                  Cardinality(m.winners.winnersByTopic[eventRoom.topics[k].id]))

\* C4: every winner of a topic has a stored bid on that topic whose amount is
\* strictly greater than 0.
C4_WinnersBidPositive ==
    \A m \in winnersSent :
        \A tid \in DOMAIN m.winners.winnersByTopic :
            \A pid \in m.winners.winnersByTopic[tid] :
                /\ mapHas(eventRoom.bids, pid)
                /\ mapHas(mapGet(eventRoom.bids, pid), tid)
                /\ jsLt(0, mapGet(mapGet(eventRoom.bids, pid), tid).amount)

\* C6: a compute_winners event changes no room, and a second one right after
\* it from the same host sends the same winners again.
C6_ComputeWinnersReadsOnly ==
    [][ev'.type = "compute_winners" =>
        /\ rooms' = rooms
        /\ conns' = conns
        /\ now' = now
        /\ (ev.type = "compute_winners" /\ ev'.conn = ev.conn) => sent' = sent]_vars

C6_Witness ==
    /\ ev.type = "compute_winners"
    /\ \E m \in winnersSent :
        \E tid \in DOMAIN m.winners.winnersByTopic :
            m.winners.winnersByTopic[tid] # {}

\* C9: a bid event leaves the bids and the spent totals of every locked room
\* as they were and sends no room_update for it.
C9_LockedRoomRejectsBids ==
    [][ev'.type = "bid" =>
        \A r \in DOMAIN rooms :
            rooms[r].locked =>
                /\ r \in DOMAIN rooms'
                /\ rooms'[r].bids = rooms[r].bids
                /\ rooms'[r].players = rooms[r].players
                /\ ~\E m \in sent' : m.type = "room_update" /\ m.room = r]_vars

C9_Witness ==
    /\ ev.type = "bid"
    /\ joined(ev.conn)
    /\ eventRoom.locked
    /\ eventRoom.topics # <<>>
    /\ \E i \in 1..Len(eventRoom.bids) : eventRoom.bids[i].val # <<>>

hostOnly == {"set_config", "set_topics", "lock_bids", "unlock_bids", "compute_winners"}

\* C10: a host-only event from a participant who is not the host of the room
\* changes nothing and sends nothing.
C10_NonHostIgnored ==
    [][(ev'.type \in hostOnly /\ joined(ev'.conn) /\ ~isHost(ev'.conn)) =>
        /\ rooms' = rooms
        /\ conns' = conns
        /\ now' = now
        /\ sent' = {}]_vars

C10_Witness ==
    /\ ev.type \in hostOnly
    /\ joined(ev.conn)
    /\ ~isHost(ev.conn)
    /\ eventRoom.topics # <<>>
    /\ sent = {}

(***************************************************************************)
(* Properties of the clamp.                                                *)
(***************************************************************************)
\* the participant's bid map before the call, after it and after the second
clampInput == call.room.bids[1].val
clampFirst == call.first.room.bids[1].val
clampSecond == call.second.room.bids[1].val

\* x is trimmed before y: smaller amount, or equal amount and larger ts
trimmedBefore(x, y) ==
    \/ jsLt(x.amount, y.amount)
    \/ x.amount = y.amount /\ x.ts > y.ts

\* C7: when the bid total T exceeds the budget B, the clamp leaves a total of
\* exactly B, increases no bid and makes none negative, and it takes from a
\* bid only when every bid that is trimmed before it is down to 0.
C7_TrimToBudget ==
    (call.pc = "clamped"
        /\ jsLt(call.room.config.budget, SumSeq(amountsOf(clampInput)))) =>
        /\ SumSeq(amountsOf(clampFirst)) = call.room.config.budget
        /\ mapKeys(clampFirst) = mapKeys(clampInput)
        /\ \A tid \in mapKeys(clampInput) :
              /\ jsLe(0, mapGet(clampFirst, tid).amount)
              /\ jsLe(mapGet(clampFirst, tid).amount, mapGet(clampInput, tid).amount)
        /\ \A x, y \in mapKeys(clampInput) :
              (/\ trimmedBefore(mapGet(clampInput, x), mapGet(clampInput, y))
               /\ jsLt(mapGet(clampFirst, y).amount, mapGet(clampInput, y).amount))
              => mapGet(clampFirst, x).amount = 0

\* C8: a second clamp under the same budget changes no bid amount and no
\* spent total.
C8_ClampIdempotent ==
    call.pc = "reclamped" =>
        /\ mapKeys(clampSecond) = mapKeys(clampFirst)
        /\ \A tid \in mapKeys(clampFirst) :
              mapGet(clampSecond, tid).amount = mapGet(clampFirst, tid).amount
        /\ call.second.room.players = call.first.room.players

C8_Witness ==
    /\ call.pc = "reclamped"
    /\ IsFiniteNum(SumSeq(amountsOf(clampInput)))
    /\ jsLt(call.room.config.budget, SumSeq(amountsOf(clampInput)))
    /\ \E tid \in mapKeys(clampFirst) :
          /\ jsLt(0, mapGet(clampFirst, tid).amount)
          /\ jsLt(mapGet(clampFirst, tid).amount, mapGet(clampInput, tid).amount)

(***************************************************************************)
(* Properties of the allocation engine.                                    *)
(***************************************************************************)
\* the winner sets after step 1 (lines 182-189)
tentativeWinners ==
    tentative(call.room.topics, call.lists, Len(call.room.topics)).winnersByTopic

\* the topic ids whose winner set holds the participant
wonBy(winnersByTopic, pid) ==
    {tid \in DOMAIN winnersByTopic : pid \in winnersByTopic[tid]}

\* C2: in the result no participant is in the winner set of more than one
\* topic.
C2_OneTopicPerWinner ==
    call.pc = "done" =>
        \A pid \in Bidders : Cardinality(wonBy(call.result.winnersByTopic, pid)) <= 1

C2_Witness ==
    /\ call.pc = "done"
    /\ \E pid \in Bidders :
          /\ Cardinality(wonBy(tentativeWinners, pid)) > 1
          /\ Cardinality(wonBy(call.result.winnersByTopic, pid)) = 1

\* C5: the loop ends because a pass changed nothing, and before its safety
\* counter reaches the ceiling.
C5_LoopEndsUnchanged ==
    call.pc = "done" => (~call.st.changed /\ call.st.safety < SafetyCeiling)

C5_Witness ==
    /\ call.pc = "done"
    /\ call.st.safety > 1
    /\ call.result.winnersByTopic # tentativeWinners
    /\ \E tid \in DOMAIN tentativeWinners :
          call.result.winnersByTopic[tid] \ tentativeWinners[tid] # {}

(***************************************************************************)
(* Properties of hosts, rooms and connections.                             *)
(***************************************************************************)
\* C11: a room with participants has one of them as host, and a room has no
\* host only when it has no participant.
C11_HostIsParticipant ==
    \A r \in DOMAIN rooms :
        /\ rooms[r].players # <<>> => rooms[r].hostId \in mapKeys(rooms[r].players)
        /\ rooms[r].hostId = nullId => rooms[r].players = <<>>

C11_Witness ==
    /\ ev.type = "close"
    /\ conns[ev.conn].room \in DOMAIN rooms
    /\ ev.conn \notin mapKeys(eventRoom.players)
    /\ eventRoom.players # <<>>
    /\ eventRoom.hostId > ev.conn

\* C12: when a participant's connection closes, a room he hosted and others
\* stay in is kept and goes to the first remaining participant in insertion
\* order; a room he did not host keeps its host.
C12_HostHandoff ==
    [][ev'.type = "close" =>
        \A r \in DOMAIN rooms :
            LET rest == mapDelete(rooms[r].players, ev'.conn)
            IN  mapHas(rooms[r].players, ev'.conn) =>
                    /\ (rooms[r].hostId = ev'.conn /\ rest # <<>>) =>
                            (r \in DOMAIN rooms' /\ rooms'[r].hostId = rest[1].key)
                    /\ rooms[r].hostId # ev'.conn =>
                            (r \in DOMAIN rooms' /\ rooms'[r].hostId = rooms[r].hostId)]_vars

\* the room a first join by participant c creates, as the claim describes it
brandNew(c) ==
    [hostId  |-> c,
     config  |-> [budget |-> 100, revealBids |-> TRUE, allowJoinAfterLock |-> TRUE],
     locked  |-> FALSE,
     topics  |-> <<>>,
     players |-> <<[key |-> c, val |-> [spent |-> 0]]>>,
     bids    |-> <<[key |-> c, val |-> <<>>]>>]

\* C13: every room of the store has a participant, and a join with a code
\* the store does not hold gets a brand-new room with the joiner as host.
C13_StoredRoomsHaveParticipants ==
    /\ [](\A r \in DOMAIN rooms : rooms[r].players # <<>>)
    /\ [][ev'.type = "join" =>
            \A r \in DOMAIN rooms' \ DOMAIN rooms :
                rooms'[r] = brandNew(ev'.conn)]_vars

C13_Witness ==
    /\ ev.type = "join"
    /\ conns[ev.conn].room \in DOMAIN rooms
    /\ eventRoom = brandNew(ev.conn)
    /\ \E d \in Conns : ~conns[d].open /\ conns[d].room = detachedRoom

\* C14: once a connection is closed, its id is a key of no room's participant
\* mapping and of no room's bids.
C14_ClosedConnectionGone ==
    \A c \in Conns :
        ~conns[c].open =>
            \A r \in DOMAIN rooms :
                ~mapHas(rooms[r].players, c) /\ ~mapHas(rooms[r].bids, c)

\* C15: a join answered with an error changes no room, sends no room_update
\* and leaves every participant's connection with the room it had joined;
\* any other join makes the joiner a participant of the room it asked for.
C15_RejectedJoinMutatesNothing ==
    [][ev'.type = "join" =>
        IF \E m \in sent' : m.type = "error"
        THEN /\ rooms' = rooms
             /\ \A d \in Conns : joined(d) => conns'[d] = conns[d]
             /\ \A m \in sent' : m.type # "room_update"
        ELSE /\ conns'[ev'.conn].room \in DOMAIN rooms'
             /\ mapHas(rooms'[conns'[ev'.conn].room].players, ev'.conn)]_vars

\* C16: every topic id that is a key of a stored bid map is the id of a topic
\* of the room.
C16_BidsNameTopics ==
    \A r \in DOMAIN rooms :
        \A i \in 1..Len(rooms[r].bids) :
            mapKeys(rooms[r].bids[i].val) \subseteq topicIds(rooms[r].topics)

\* set_topics has just emptied every bid map of a room that has topics: the
\* clock has moved, so a bid was stored, and nobody has left
C16_Witness ==
    /\ ev.type = "set_topics"
    /\ now > 0
    /\ \A c \in Conns : conns[c].open
    /\ conns[ev.conn].room \in DOMAIN rooms
    /\ eventRoom.topics # <<>>
    /\ \A i \in 1..Len(eventRoom.bids) : eventRoom.bids[i].val = <<>>

(***************************************************************************)
(* Properties of the timestamps the clamp writes.                          *)
(***************************************************************************)
\* C17: a clamp that finds the total above the budget leaves every bid of the
\* participant with one and the same timestamp, not earlier than any time
\* read before the call; a clamp that finds the total within the budget
\* leaves the bid map as it was.
C17_TrimStampsOnce ==
    call.pc = "clamped" =>
        /\ jsLt(call.room.config.budget, SumSeq(amountsOf(clampInput))) =>
              \E t \in call.t0..MaxClock :
                  \A tid \in mapKeys(clampFirst) : mapGet(clampFirst, tid).ts = t
        /\ jsLe(SumSeq(amountsOf(clampInput)), call.room.config.budget) =>
              clampFirst = clampInput

(***************************************************************************)
(* Properties of the stored bids.                                          *)
(***************************************************************************)
\* C18: a bid that is accepted (it is answered with a room_update) changes,
\* in the bidder's room, only the bidder's bid map and spent: the topics, the
\* configuration, the lock, the host, the participants and every other
\* participant's bids and spent stay, and so does every other room.
C18_BidChangesOnlyBidder ==
    [][(ev'.type = "bid" /\ sent' # {}) =>
        LET pid == ev'.conn
            r == conns[pid].room
        IN  /\ conns' = conns
            /\ DOMAIN rooms' = DOMAIN rooms
            /\ \A q \in DOMAIN rooms \ {r} : rooms'[q] = rooms[q]
            /\ rooms'[r].topics = rooms[r].topics
            /\ rooms'[r].config = rooms[r].config
            /\ rooms'[r].locked = rooms[r].locked
            /\ rooms'[r].hostId = rooms[r].hostId
            /\ keySeq(rooms'[r].players) = keySeq(rooms[r].players)
            /\ keySeq(rooms'[r].bids) = keySeq(rooms[r].bids)
            /\ \A q \in mapKeys(rooms[r].players) \ {pid} :
                  mapGet(rooms'[r].players, q) = mapGet(rooms[r].players, q)
            /\ \A q \in mapKeys(rooms[r].bids) \ {pid} :
                  mapGet(rooms'[r].bids, q) = mapGet(rooms[r].bids, q)]_vars

\* an accepted bid that the clamp trimmed to the budget, in a room where
\* another participant holds a bid
C18_Witness ==
    /\ ev.type = "bid"
    /\ sent # {}
    /\ mapGet(eventRoom.players, ev.conn).spent = eventRoom.config.budget
    /\ \E q \in mapKeys(eventRoom.players) \ {ev.conn} :
          /\ mapGet(eventRoom.players, q).spent > 0
          /\ mapGet(eventRoom.bids, q) # <<>>

\* the stored amounts of a bid map, by topic id
amountByTopic(perTopic) ==
    {<<perTopic[i].key, perTopic[i].val.amount>> : i \in 1..Len(perTopic)}

\* the participants of room r who stay in it keep their stored amounts
staysFrozen(r) ==
    /\ r \in DOMAIN rooms'
    /\ \A p \in mapKeys(rooms[r].players) \cap mapKeys(rooms'[r].players) :
          amountByTopic(mapGet(rooms'[r].bids, p)) = amountByTopic(mapGet(rooms[r].bids, p))

\* C19 as stated: no event changes a stored bid amount of a participant who
\* stays in a locked room.
C19_LockedBidsFrozen ==
    [][\A r \in DOMAIN rooms :
          (rooms[r].locked /\ r \in DOMAIN rooms') => staysFrozen(r)]_vars

\* C19: in a locked room every event other than set_config and set_topics
\* leaves the stored bid amounts of the participants who stay as they were.
C19_LockedBidsFrozenButForHost ==
    [][ev'.type \notin {"set_config", "set_topics"} =>
          \A r \in DOMAIN rooms :
              (rooms[r].locked /\ r \in DOMAIN rooms') => staysFrozen(r)]_vars

\* a participant has left a locked room in which a bid above 0 is stored
C19_Witness ==
    /\ ev.type = "close"
    /\ conns[ev.conn].room \in DOMAIN rooms
    /\ eventRoom.locked
    /\ ~mapHas(eventRoom.players, ev.conn)
    /\ \E i \in 1..Len(eventRoom.bids) :
          \E a \in amountByTopic(eventRoom.bids[i].val) : a[2] > 0

\* C20: a participant of a room is a participant of no other room, and it is
\* an open connection whose events are applied to that room.
C20_OneRoomPerParticipant ==
    \A r \in DOMAIN rooms :
        \A p \in mapKeys(rooms[r].players) :
            /\ conns[p].open
            /\ conns[p].room = r
            /\ \A q \in DOMAIN rooms : mapHas(rooms[q].players, p) => q = r

(***************************************************************************)
(* Properties of the topic list and of the allocation.                     *)
(***************************************************************************)
\* C21: the topics a room stores have pairwise distinct ids.
C21_TopicIdsDistinct ==
    \A r \in DOMAIN rooms :
        \A i, j \in 1..Len(rooms[r].topics) :
            rooms[r].topics[i].id = rooms[r].topics[j].id => i = j

\* the ids of the stored topics are pairwise distinct
distinctIds(topics) ==
    \A i, j \in 1..Len(topics) : topics[i].id = topics[j].id => i = j

\* the participants who hold a bid above 0 on topic id tid and are assigned
\* to no topic by the result
unassignedBidders(room, result, tid) ==
    {pid \in mapKeys(room.bids) :
        /\ mapHas(mapGet(room.bids, pid), tid)
        /\ jsLt(0, mapGet(mapGet(room.bids, pid), tid).amount)
        /\ pid \notin DOMAIN result.assignmentByPlayer}

\* C22: in the result of compute_winners over topics with pairwise distinct
\* ids, a topic on which an unassigned participant holds a bid above 0 has
\* exactly capacity winners.
C22_NoFreeSlot ==
    \A m \in winnersSent :
        distinctIds(eventRoom.topics) =>
            \A k \in 1..Len(eventRoom.topics) :
                LET t == eventRoom.topics[k]
                IN  unassignedBidders(eventRoom, m.winners, t.id) # {} =>
                        Cardinality(m.winners.winnersByTopic[t.id]) = t.capacity

\* the stored bid of participant pid on topic id tid, as a candidate
candidate(room, pid, tid) ==
    [playerId |-> pid,
     amount   |-> mapGet(mapGet(room.bids, pid), tid).amount,
     ts       |-> mapGet(mapGet(room.bids, pid), tid).ts]

\* the participants who hold a bid above 0 on topic id tid, are assigned to no
\* topic by the result, and are ranked above participant w on that topic
outranking(room, result, tid, w) ==
    {pid \in unassignedBidders(room, result, tid) :
        rankBefore(candidate(room, pid, tid), candidate(room, w, tid))}

\* C23: in the result of computeWinners over topics with pairwise distinct
\* ids, no participant who is assigned to no topic is ranked above a winner
\* of a topic in that topic's ranking.
C23_NoWinnerOutranked ==
    (call.pc = "done" /\ distinctIds(call.room.topics)) =>
        \A tid \in DOMAIN call.result.winnersByTopic :
            \A w \in call.result.winnersByTopic[tid] :
                outranking(call.room, call.result, tid, w) = {}

=============================================================================
